---- MODULE Spec2Model ----
(***************************************************************************)
(* A model of prometheus_govee_exporter/main.py: the payload decoder, the  *)
(* decoder registry, the advertisement handler with its gauges, the        *)
(* command-line device arguments and the scan loop.                        *)
(*                                                                         *)
(* Representation of Python values:                                        *)
(*   str    a sequence of one-character strings (so that startswith and    *)
(*          split can be computed);                                        *)
(*   bytes  a sequence of integers 0..255;                                 *)
(*   dict   a function whose DOMAIN is the set of keys;                    *)
(*   float  a scaled integer, the scale fixed per quantity:                *)
(*            Celsius      in 1/10000 degree   (temp_c  = M/10000)         *)
(*            humidity     in 1/10 percent     (humidity = (M % 1000)/10)  *)
(*            Fahrenheit   in 1/100 degree     (round(..., 2))             *)
(*          Each of these decimals is within the 15 significant digits a   *)
(*          double carries, so two of the program's floats are equal iff   *)
(*          the scaled integers are.  (-0.0 is modelled as 0, to which it  *)
(*          compares equal.)                                               *)
(***************************************************************************)
EXTENDS Integers, Sequences, FiniteSets, TLC

None == "None"

(***************************************************************************)
(* Arbitrary-precision naturals, as sequences of LimbBits-bit limbs, least *)
(* significant first.  They carry the IEEE-754 double arithmetic of the    *)
(* Fahrenheit conversion, whose decimal result can be decided by the       *)
(* binary rounding error.                                                  *)
(***************************************************************************)
LimbBits == 13

Base == 2 ^ LimbBits

RECURSIVE NatToLimbs(_)
NatToLimbs(n) ==
    IF n = 0 THEN << >> ELSE << n % Base >> \o NatToLimbs(n \div Base)

RECURSIVE LimbsToNat(_)
LimbsToNat(b) ==
    IF b = << >> THEN 0 ELSE Head(b) + Base * LimbsToNat(Tail(b))

RECURSIVE Trim(_)
Trim(b) ==
    IF b = << >> THEN << >>
    ELSE IF b[Len(b)] = 0 THEN Trim(SubSeq(b, 1, Len(b) - 1))
    ELSE b

ShiftLimbs(b, k) == [i \in 1..k |-> 0] \o b

Limb(b, i) == IF i <= Len(b) THEN b[i] ELSE 0

RECURSIVE MulSmallC(_, _, _, _)
MulSmallC(b, c, i, carry) ==
    IF i > Len(b) THEN NatToLimbs(carry)
    ELSE << (b[i] * c + carry) % Base >>
         \o MulSmallC(b, c, i + 1, (b[i] * c + carry) \div Base)

\* the big natural b times a small factor
MulSmall(b, c) == Trim(MulSmallC(b, c, 1, 0))

RECURSIVE DivSmallC(_, _, _, _, _)
DivSmallC(b, d, i, rem, q) ==
    IF i = 0 THEN [q |-> q, r |-> rem]
    ELSE DivSmallC(b, d, i - 1, (rem * Base + b[i]) % d,
                   << (rem * Base + b[i]) \div d >> \o q)

\* quotient and remainder of the big natural b by a small divisor, by long
\* division from the most significant limb
DivSmall(b, d) ==
    LET res == DivSmallC(b, d, Len(b), 0, << >>)
    IN  [q |-> Trim(res.q), r |-> res.r]

RECURSIVE AddC(_, _, _, _)
AddC(a, b, i, carry) ==
    IF i > Len(a) /\ i > Len(b) THEN NatToLimbs(carry)
    ELSE << (Limb(a, i) + Limb(b, i) + carry) % Base >>
         \o AddC(a, b, i + 1, (Limb(a, i) + Limb(b, i) + carry) \div Base)

BigAdd(a, b) == Trim(AddC(a, b, 1, 0))

RECURSIVE SubC(_, _, _, _)
SubC(a, b, i, borrow) ==
    IF i > Len(a) THEN << >>
    ELSE << (Limb(a, i) - Limb(b, i) - borrow + Base) % Base >>
         \o SubC(a, b, i + 1,
                 IF Limb(a, i) - Limb(b, i) - borrow < 0 THEN 1 ELSE 0)

\* a - b for a >= b
BigSub(a, b) == Trim(SubC(a, b, 1, 0))

RECURSIVE CmpC(_, _, _)
CmpC(a, b, i) ==
    IF i = 0 THEN 0
    ELSE IF Limb(a, i) > Limb(b, i) THEN 1
    ELSE IF Limb(a, i) < Limb(b, i) THEN -1
    ELSE CmpC(a, b, i - 1)

\* -1, 0 or 1 as a < b, a = b, a > b
BigCmp(a, b) == CmpC(a, b, IF Len(a) > Len(b) THEN Len(a) ELSE Len(b))

\* bit i (from 1, the least significant) of the big natural b
BitAt(b, i) ==
    (Limb(b, ((i - 1) \div LimbBits) + 1) \div (2 ^ ((i - 1) % LimbBits))) % 2

\* the number of significant bits of the big natural b
BitLen(b) ==
    LET t == Trim(b)
    IN  IF t = << >> THEN 0
        ELSE LimbBits * (Len(t) - 1)
             + Cardinality({k \in 0..(LimbBits - 1) : 2 ^ k <= t[Len(t)]})

\* b with its k least significant bits cleared
ClearLow(b, k) ==
    [j \in 1..Len(b) |->
        IF j <= k \div LimbBits THEN 0
        ELSE IF j = (k \div LimbBits) + 1
        THEN (b[j] \div (2 ^ (k % LimbBits))) * (2 ^ (k % LimbBits))
        ELSE b[j]]

\* the big natural 2^k
PowerOfTwo(k) == ShiftLimbs(<< 2 ^ (k % LimbBits) >>, k \div LimbBits)

(***************************************************************************)
(* IEEE-754 binary64 values in the range the program produces: a sign and  *)
(* a magnitude, the magnitude an exact multiple of 2^-FracBits held as a   *)
(* big natural.  Every operation computes the exact result and rounds it   *)
(* to MantBits significant bits, ties to even, as the hardware does.       *)
(***************************************************************************)
MantBits == 53

\* limbs kept below the unit: the smallest nonzero magnitude, 1/10000, has
\* its 53rd bit at 2^-66 and a quotient needs two bits more
FracLimbs == 6

FracBits == FracLimbs * LimbBits

\* one of the n least significant bits of b is set
AnySet(b, n) ==
    \/ \E j \in 1..(n \div LimbBits) : Limb(b, j) # 0
    \/ Limb(b, (n \div LimbBits) + 1) % (2 ^ (n % LimbBits)) # 0

\* round the natural b (+ a nonzero fraction below it iff sticky) to
\* MantBits significant bits
Round53(b, sticky) ==
    LET t == Trim(b)
        k == BitLen(t) - MantBits
    IN  IF k <= 0 THEN t
        ELSE LET kept  == ClearLow(t, k)
                 guard == BitAt(t, k)
                 rest  == sticky \/ AnySet(t, k - 1)
                 up    == guard = 1 /\ (rest \/ BitAt(t, k + 1) = 1)
             IN  IF up THEN BigAdd(kept, PowerOfTwo(k)) ELSE kept

FloatOfInt(n) ==
    [neg |-> n < 0,
     mag |-> ShiftLimbs(NatToLimbs(IF n < 0 THEN -n ELSE n), FracLimbs)]

\* int / int (true division) and float / int, for a small positive divisor
FloatDiv(x, d) ==
    LET res == DivSmall(x.mag, d)
    IN  [neg |-> x.neg, mag |-> Round53(res.q, res.r # 0)]

\* int * float, for a small positive factor
FloatMul(c, x) == [neg |-> x.neg, mag |-> Round53(MulSmall(x.mag, c), FALSE)]

FloatNeg(x) == [neg |-> ~x.neg, mag |-> x.mag]

\* float + float
FloatAdd(x, y) ==
    IF x.neg = y.neg
    THEN [neg |-> x.neg, mag |-> Round53(BigAdd(x.mag, y.mag), FALSE)]
    ELSE IF BigCmp(x.mag, y.mag) >= 0
    THEN [neg |-> x.neg /\ BigCmp(x.mag, y.mag) # 0,
          mag |-> Round53(BigSub(x.mag, y.mag), FALSE)]
    ELSE [neg |-> y.neg, mag |-> Round53(BigSub(y.mag, x.mag), FALSE)]

\* round(x, 2), as the integer number of hundredths: the decimal nearest to
\* the exact binary value of x, an exact tie going to the even hundredth
PyRound2(x) ==
    LET h     == MulSmall(x.mag, 100)
        whole == LimbsToNat(SubSeq(h, FracLimbs + 1, Len(h)))
        guard == BitAt(h, FracBits)
        rest  == AnySet(h, FracBits - 1)
        up    == guard = 1 /\ (rest \/ whole % 2 = 1)
        n     == IF up THEN whole + 1 ELSE whole
    IN  IF x.neg THEN -n ELSE n

\* the float the decoder returns for a Celsius value given in 1/10000 degree:
\* float(temp_vals / 10_000), negated when the sign flag was set
CelsiusFloat(temp_c) ==
    LET q == FloatDiv(FloatOfInt(IF temp_c < 0 THEN -temp_c ELSE temp_c), 10000)
    IN  IF temp_c < 0 THEN FloatNeg(q) ELSE q

\* a faulty variant: the hundredths are cut off instead of rounded
Fahrenheit_truncated(temp_c) == (3200000 + 18 * temp_c) \div 1000

\* round(32 + 9 * temp_c / 5, 2), in 1/100 degree
Fahrenheit(temp_c) ==
    PyRound2(FloatAdd(FloatOfInt(32),
                      FloatDiv(FloatMul(9, CelsiusFloat(temp_c)), 5)))

(***************************************************************************)
(* Python built-ins the program uses on str, bytes and dict.               *)
(***************************************************************************)
Min(a, b) == IF a < b THEN a ELSE b

\* s.startswith(p)
StartsWith(s, p) == Len(s) >= Len(p) /\ SubSeq(s, 1, Len(p)) = p

\* s[start:stop] for 0 <= start <= stop: what lies beyond the end is dropped
PySlice(s, start, stop) == SubSeq(s, start + 1, Min(stop, Len(s)))

\* s.split(sep, maxsplit) for a one-character sep; maxsplit = -1 is no limit
RECURSIVE PySplit(_, _, _)
PySplit(s, sep, maxsplit) ==
    IF maxsplit = 0 \/ \A i \in 1..Len(s) : s[i] # sep THEN << s >>
    ELSE LET i == CHOOSE j \in 1..Len(s) :
                      s[j] = sep /\ \A k \in 1..(j - 1) : s[k] # sep
         IN  << SubSeq(s, 1, i - 1) >>
             \o PySplit(SubSeq(s, i + 1, Len(s)), sep, maxsplit - 1)

\* int.from_bytes(b, 'big')
RECURSIVE IntFromBytesBig(_)
IntFromBytesBig(b) ==
    IF b = << >> THEN 0
    ELSE b[Len(b)] + 256 * IntFromBytesBig(SubSeq(b, 1, Len(b) - 1))

\* d.get(k, default)
DictGet(d, k, default) == IF k \in DOMAIN d THEN d[k] ELSE default

EmptyDict == [k \in {} |-> None]

\* d after d[k] = v
DictSet(d, k, v) == [x \in DOMAIN d \cup {k} |-> IF x = k THEN v ELSE d[x]]

\* bool(v) for v a str or None
Truthy(v) == v # None /\ v # << >>

(***************************************************************************)
(* The payload decoder.                                                    *)
(***************************************************************************)
VendorKey == 60552          \* 0xec88

SignBit == 8388608          \* 0x800000

\* a faulty variant: the humidity is taken before the sign bit is masked off
parse_humidity_with_sign(data) ==
    IF VendorKey \notin DOMAIN data
    THEN [raised |-> "KeyError", value |-> None]
    ELSE LET temp_data   == data[VendorKey]
             raw         == IntFromBytesBig(PySlice(temp_data, 1, 4))
             is_negative == (raw \div SignBit) % 2 = 1
             temp_vals   == raw % SignBit
             temp        == IF is_negative THEN -temp_vals ELSE temp_vals
             humidity    == raw % 1000
         IN  IF Len(temp_data) < 5
             THEN [raised |-> "IndexError", value |-> None]
             ELSE [raised |-> None,
                   value  |-> << temp, humidity, temp_data[5] >>]

\* a faulty variant: a payload without a battery byte decodes, with battery 0
parse_without_battery(data) ==
    IF VendorKey \notin DOMAIN data
    THEN [raised |-> "KeyError", value |-> None]
    ELSE LET temp_data   == data[VendorKey]
             raw         == IntFromBytesBig(PySlice(temp_data, 1, 4))
             is_negative == (raw \div SignBit) % 2 = 1
             temp_vals   == raw % SignBit
             temp        == IF is_negative THEN -temp_vals ELSE temp_vals
             humidity    == temp_vals % 1000
         IN  [raised |-> None,
              value  |-> << temp, humidity,
                            IF Len(temp_data) < 5 THEN 0 ELSE temp_data[5] >>]

\* The decoder's outcome: the exception it raises, or None and the tuple
\* (temp, humidity, battery_vals) it returns.
parse_gvh5072_5075_data(data) ==
    IF VendorKey \notin DOMAIN data
    THEN [raised |-> "KeyError", value |-> None]
    ELSE LET temp_data   == data[VendorKey]
             raw         == IntFromBytesBig(PySlice(temp_data, 1, 4))
             is_negative == (raw \div SignBit) % 2 = 1
             temp_vals   == raw % SignBit
             temp        == IF is_negative THEN -temp_vals ELSE temp_vals
             humidity    == temp_vals % 1000
         IN  IF Len(temp_data) < 5
             THEN [raised |-> "IndexError", value |-> None]
             ELSE [raised |-> None,
                   value  |-> << temp, humidity, temp_data[5] >>]

(***************************************************************************)
(* The decoder registry.                                                   *)
(***************************************************************************)
GVH == << "G", "V", "H" >>

GVH5072 == << "G", "V", "H", "5", "0", "7", "2" >>

GVH5075 == << "G", "V", "H", "5", "0", "7", "5" >>

\* a faulty variant: a third model shares the decoder
GOVEE_PARSERS_three_models ==
    [k \in {GVH5072, GVH5075, << "G", "V", "H", "5", "1", "0", "0" >>} |->
        "parse_gvh5072_5075_data"]

GOVEE_PARSERS ==
    [k \in {GVH5072, GVH5075} |-> "parse_gvh5072_5075_data"]

\* calling a registered parser
CallParser(parser, data) ==
    IF parser = "parse_gvh5072_5075_data" THEN parse_gvh5072_5075_data(data)
    ELSE [raised |-> "TypeError", value |-> None]

(***************************************************************************)
(* The inputs of the model: device names, manufacturer data and            *)
(* DEVICE[=LABEL] command-line arguments.                                  *)
(***************************************************************************)
GVH5075_ABCD ==
    << "G", "V", "H", "5", "0", "7", "5", "_", "A", "B", "C", "D" >>

GVH5100_ABCD ==
    << "G", "V", "H", "5", "1", "0", "0", "_", "A", "B", "C", "D" >>

ABCD1234 == << "A", "B", "C", "D", "1", "2", "3", "4" >>

\* every name an advertisement of the model carries; GVH5072 has no underscore
DeviceNames == {GVH5075_ABCD, GVH5072, GVH5100_ABCD, ABCD1234}

\* 6.6051 C, 5.1 %, 80 %
Data_Example == [k \in {VendorKey} |-> << 0, 1, 2, 3, 80 >>]

\* 0.0 C
Data_Zero == [k \in {VendorKey} |-> << 0, 0, 0, 0, 100 >>]

\* 100.0 C
Data_Boiling == [k \in {VendorKey} |-> << 0, 15, 66, 64, 100 >>]

\* -40.0 C, battery byte 255
Data_Minus40 == [k \in {VendorKey} |-> << 0, 134, 26, 128, 255 >>]

\* -0.025 C, 25.0 %, six bytes: 31.955 F exactly, a tie between two hundredths
\* that the binary error of the double decides (downwards, to 31.95)
Data_Tie == [k \in {VendorKey} |-> << 0, 128, 0, 250, 50, 7 >>]

\* four bytes
Data_Short == [k \in {VendorKey} |-> << 0, 1, 2, 3 >>]

\* the vendor key is absent; 76 is another vendor's company identifier
Data_NoKey == [k \in {76} |-> << 0, 1, 2, 3, 80 >>]

ManufacturerData ==
    {Data_Example, Data_Zero, Data_Boiling, Data_Minus40, Data_Tie,
     Data_Short, Data_NoKey}

Arg_Labelled ==
    << "G", "V", "H", "5", "0", "7", "5", "_", "A", "B", "C", "D", "=", "L",
       "i", "v", "i", "n", "g", " ", "R", "o", "o", "m" >>

Arg_EmptyLabel ==
    << "G", "V", "H", "5", "0", "7", "5", "_", "A", "B", "C", "D", "=" >>

Arg_Unlabelled ==
    << "G", "V", "H", "5", "0", "7", "5", "_", "A", "B", "C", "D" >>

Arg_NotGovee ==
    << "A", "B", "C", "D", "1", "2", "3", "4", "=", "S", "h", "e", "d" >>

Arg_NoParser ==
    << "G", "V", "H", "5", "1", "0", "0", "_", "A", "B", "C", "D", "=", "A",
       "t", "t", "i", "c" >>

DeviceArgs ==
    {Arg_Labelled, Arg_EmptyLabel, Arg_Unlabelled, Arg_NotGovee,
     Arg_NoParser}

\* the most DEVICE[=LABEL] arguments on a command line of the model
MaxArgs == 2

RECURSIVE SeqsUpTo(_, _)
SeqsUpTo(S, n) ==
    IF n = 0 THEN {<< >>}
    ELSE LET shorter == SeqsUpTo(S, n - 1)
         IN  shorter \cup {Append(q, x) : q \in shorter, x \in S}

\* --poll-interval values of the model; 30 is the default
PollIntervals == {1, 30}

(***************************************************************************)
(* The state of the program.                                               *)
(***************************************************************************)
VARIABLES
    devices,              \* GoveeExporter.devices: device name -> label
    poll_interval_secs,   \* GoveeExporter.poll_interval_secs
    temp_c_gauge,         \* the four gauges: (device, label) -> value
    temp_f_gauge,
    humidity_gauge,
    battery_gauge,
    pc,                   \* the await run_scan_loop executes next
    scanning,             \* the scanner is started
    calls,                \* history: the last two calls made on the scanner
    slept,                \* history: seconds slept since the last scanner
                          \* call, and as that call was made
    last,                 \* history: the last advertisement and its outcome
    accepted              \* history: per device, the manufacturer data of
                          \* its last advertisement that reached the gauges

gauges == << temp_c_gauge, temp_f_gauge, humidity_gauge, battery_gauge >>

loop == << pc, scanning, calls, slept >>

vars == << devices, poll_interval_secs, temp_c_gauge, temp_f_gauge,
           humidity_gauge, battery_gauge, pc, scanning, calls, slept, last,
           accepted >>

(***************************************************************************)
(* run(): the DEVICE[=LABEL] arguments become the devices dict.            *)
(***************************************************************************)
\* device, label = pair.split('=', 2), or the pair itself as both when the
\* unpacking raises ValueError (no '=', or more than one)
ParseDeviceArg(pair) ==
    LET parts == PySplit(pair, "=", 2)
    IN  IF Len(parts) = 2 THEN << parts[1], parts[2] >> ELSE << pair, pair >>

RECURSIVE BuildDevices(_)
BuildDevices(args) ==
    IF args = << >> THEN EmptyDict
    ELSE LET entry == ParseDeviceArg(args[Len(args)])
         IN  DictSet(BuildDevices(SubSeq(args, 1, Len(args) - 1)),
                     entry[1], entry[2])

Init ==
    /\ devices \in {BuildDevices(args) : args \in SeqsUpTo(DeviceArgs, MaxArgs)}
    /\ poll_interval_secs \in PollIntervals
    /\ temp_c_gauge = EmptyDict
    /\ temp_f_gauge = EmptyDict
    /\ humidity_gauge = EmptyDict
    /\ battery_gauge = EmptyDict
    /\ pc = "start"
    /\ scanning = FALSE
    /\ calls = << None, None >>
    /\ slept = [now |-> 0, at_call |-> 0]
    /\ last = [name |-> << >>, data |-> EmptyDict, outcome |-> "none",
               reading |-> << >>]
    /\ accepted = EmptyDict

(***************************************************************************)
(* run_scan_loop: while True: start, sleep, stop.                          *)
(***************************************************************************)
ScannerStart ==
    /\ pc = "start"
    /\ pc' = "sleep"
    /\ scanning' = TRUE
    /\ calls' = << calls[2], "start" >>
    /\ slept' = [now |-> 0, at_call |-> slept.now]
    /\ UNCHANGED << devices, poll_interval_secs, gauges, last, accepted >>

Sleep ==
    /\ pc = "sleep"
    /\ pc' = "stop"
    /\ slept' = [slept EXCEPT !.now = slept.now + poll_interval_secs]
    /\ UNCHANGED << devices, poll_interval_secs, gauges, scanning, calls,
                    last, accepted >>

\* a faulty variant: only the sleep and the stop are inside the loop
ScannerStop_then_sleep ==
    /\ pc = "stop"
    /\ pc' = "sleep"
    /\ scanning' = FALSE
    /\ calls' = << calls[2], "stop" >>
    /\ slept' = [now |-> 0, at_call |-> slept.now]
    /\ UNCHANGED << devices, poll_interval_secs, gauges, last, accepted >>

ScannerStop ==
    /\ pc = "stop"
    /\ pc' = "start"
    /\ scanning' = FALSE
    /\ calls' = << calls[2], "stop" >>
    /\ slept' = [now |-> 0, at_call |-> slept.now]
    /\ UNCHANGED << devices, poll_interval_secs, gauges, last, accepted >>

(***************************************************************************)
(* The metric sink.                                                        *)
(***************************************************************************)
\* gauge.labels(device=device, label=label).set(value)
GaugeSet(gauge, device, label, value) ==
    DictSet(gauge, << device, label >>, value)

update_temp(device, label, temp_c, temp_f) ==
    /\ temp_c_gauge' = GaugeSet(temp_c_gauge, device, label, temp_c)
    /\ temp_f_gauge' = GaugeSet(temp_f_gauge, device, label, temp_f)

\* a faulty variant: the humidity cell is labelled with the device name
update_humidity_device_as_label(device, label, humidity) ==
    humidity_gauge' = GaugeSet(humidity_gauge, device, device, humidity)

update_humidity(device, label, humidity) ==
    humidity_gauge' = GaugeSet(humidity_gauge, device, label, humidity)

update_battery(device, label, battery) ==
    battery_gauge' = GaugeSet(battery_gauge, device, label, battery)

(***************************************************************************)
(* on_advertisement, called by the scanner while it is started.            *)
(***************************************************************************)
\* a faulty variant: the prefix test is missing
IsGovee_any_name(device_name) == TRUE

\* device_name.startswith('GVH')
IsGovee(device_name) == StartsWith(device_name, GVH)

\* a faulty variant: an empty scan list is not taken to mean every device
NotOnScanList_empty_list_too(device_name) ==
    ~Truthy(DictGet(devices, device_name, None))

\* not device_label and self.devices, for device_label = devices.get(name)
NotOnScanList(device_name) ==
    ~Truthy(DictGet(devices, device_name, None)) /\ devices # EmptyDict

\* GOVEE_PARSERS.get(device_name.split('_')[0])
LookupParser(device_name) ==
    DictGet(GOVEE_PARSERS, PySplit(device_name, "_", -1)[1], None)

\* self.devices.get(device_name, device_name)
ResolveLabel(device_name) == DictGet(devices, device_name, device_name)

\* a return, or an exception leaving the callback, before any gauge is set
Leave(device_name, manufacturer_data, outcome) ==
    /\ last' = [name |-> device_name, data |-> manufacturer_data,
                outcome |-> outcome, reading |-> << >>]
    /\ UNCHANGED << gauges, accepted >>

on_advertisement(device_name, manufacturer_data) ==
    /\ scanning
    /\ UNCHANGED << devices, poll_interval_secs, loop >>
    /\ IF ~IsGovee(device_name)
       THEN Leave(device_name, manufacturer_data, "not_govee")
       ELSE
       IF NotOnScanList(device_name)
       THEN Leave(device_name, manufacturer_data, "not_on_list")
       ELSE
       IF LookupParser(device_name) = None
       THEN Leave(device_name, manufacturer_data, "no_parser")
       ELSE
       LET res == CallParser(LookupParser(device_name), manufacturer_data)
       IN
       IF res.raised # None
       THEN Leave(device_name, manufacturer_data, res.raised)
       ELSE
       LET temp_c       == res.value[1]
           humidity     == res.value[2]
           battery      == res.value[3]
           temp_f       == Fahrenheit(temp_c)
           device_label == ResolveLabel(device_name)
       IN  /\ update_temp(device_name, device_label, temp_c, temp_f)
           /\ update_humidity(device_name, device_label, humidity)
           /\ update_battery(device_name, device_label, battery)
           /\ last' = [name |-> device_name, data |-> manufacturer_data,
                       outcome |-> "updated", reading |-> res.value]
           /\ accepted' = DictSet(accepted, device_name, manufacturer_data)

Advertisement ==
    \E device_name \in DeviceNames, manufacturer_data \in ManufacturerData :
        on_advertisement(device_name, manufacturer_data)

Next == ScannerStart \/ Sleep \/ ScannerStop \/ Advertisement

Spec == Init /\ [][Next]_vars

\* The event loop resumes run_scan_loop whenever the awaited start, sleep or
\* stop has completed, and each of them completes.
FairSpec ==
    Spec /\ WF_vars(ScannerStart) /\ WF_vars(Sleep) /\ WF_vars(ScannerStop)

(***************************************************************************)
(* Vocabulary of the properties, stated apart from the definitions above.  *)
(***************************************************************************)
HasVendorPrefix(name) ==
    Len(name) >= 3 /\ name[1] = "G" /\ name[2] = "V" /\ name[3] = "H"

\* the vendor key is present with at least 5 bytes
WellFormed(data) == VendorKey \in DOMAIN data /\ Len(data[VendorKey]) >= 5

\* the part of the name before its first underscore, all of it if it has none
ModelPrefix(name) ==
    LET under == {i \in 1..Len(name) : name[i] = "_"}
    IN  IF under = {} THEN name
        ELSE SubSeq(name, 1, (CHOOSE i \in under : \A j \in under : i <= j) - 1)

HasDecoder(name) == ModelPrefix(name) \in {GVH5072, GVH5075}

\* the reading of section 4.1 for a well-formed payload: V is bytes 1..3 big
\* endian, M is V without bit 23; Celsius in 1/10000, humidity in 1/10
ExpectedReading(data) ==
    LET p == data[VendorKey]
        V == p[2] * 65536 + p[3] * 256 + p[4]
        M == IF V >= 8388608 THEN V - 8388608 ELSE V
    IN  << IF V >= 8388608 THEN -M ELSE M, M % 1000, p[5] >>

\* temp_f, in 1/100 degree, is a hundredth nearest to 32 + 9 * temp_c / 5 for
\* temp_c in 1/10000 degree
RoundedFahrenheit(temp_f, temp_c) ==
    (1000 * temp_f - (3200000 + 18 * temp_c)) \in -500..500

\* the cells of device d in a gauge
CellsOf(gauge, d) == {k \in DOMAIN gauge : k[1] = d}

NoCells ==
    /\ temp_c_gauge = EmptyDict /\ temp_f_gauge = EmptyDict
    /\ humidity_gauge = EmptyDict /\ battery_gauge = EmptyDict

\* in the gauges tc, tf, h, b the four cells (d, label) exist and hold the
\* reading decoded from data
CellsHoldIn(tc, tf, h, b, d, label, data) ==
    LET k == << d, label >>
    IN  /\ k \in DOMAIN tc /\ k \in DOMAIN tf
        /\ k \in DOMAIN h /\ k \in DOMAIN b
        /\ tc[k] = ExpectedReading(data)[1]
        /\ h[k] = ExpectedReading(data)[2]
        /\ b[k] = ExpectedReading(data)[3]
        /\ RoundedFahrenheit(tf[k], tc[k])

CellsHold(d, label, data) ==
    CellsHoldIn(temp_c_gauge, temp_f_gauge, humidity_gauge, battery_gauge,
                d, label, data)

\* the name gets past the allow-list test of the callback
PassesAllowList(name) ==
    devices = EmptyDict \/ (name \in DOMAIN devices /\ devices[name] # << >>)

\* the label configured for the name, the name itself if there is none
LabelOf(name) == IF name \in DOMAIN devices THEN devices[name] ELSE name

Raised == {"KeyError", "IndexError", "TypeError"}

\* this step is a call of on_advertisement (or changes nothing)
CallbackStep == pc' = pc /\ last'.outcome # "none"

(***************************************************************************)
(* C1.  For every manufacturer data with the vendor key and at least 5     *)
(* bytes the decoder returns (does not raise) temperature M/10000, negated *)
(* when bit 23 of V is set, humidity (M mod 1000)/10 and the byte at       *)
(* offset 4 as battery; 00 01 02 03 50 gives 6.6051, 5.1, 80.              *)
(***************************************************************************)
C1_DecoderReturnsReading ==
    last.outcome \in Raised \cup {"updated"} =>
        /\ WellFormed(last.data) <=> last.outcome = "updated"
        /\ last.outcome = "updated" =>
               last.reading = ExpectedReading(last.data)
        /\ (last.outcome = "updated" /\ last.data = Data_Example) =>
               last.reading = << 66051, 51, 80 >>

C1_Witness ==
    /\ last.data = Data_Minus40
    /\ last.reading = << -400000, 0, 255 >>
    /\ \E d \in DOMAIN accepted : accepted[d] = Data_Example

(***************************************************************************)
(* C2.  With a non-empty allow-list, an advertisement with the vendor      *)
(* prefix, a registered decoder and a well-formed payload updates the      *)
(* gauges iff its name is a key of the allow-list, and then under the      *)
(* label configured for that key, whatever string that label is.           *)
(***************************************************************************)
C2_AllowListedUpdatesUnderLabel ==
    (/\ last.outcome # "none"
     /\ devices # EmptyDict
     /\ HasVendorPrefix(last.name)
     /\ HasDecoder(last.name)
     /\ WellFormed(last.data)) =>
        /\ last.outcome = "updated" <=> last.name \in DOMAIN devices
        /\ last.name \in DOMAIN devices =>
               CellsHold(last.name, devices[last.name], last.data)

(***************************************************************************)
(* C3, as claimed.  With an empty allow-list every advertisement whose     *)
(* name begins with GVH and whose payload is well-formed updates the       *)
(* gauges keyed (name, name).                                              *)
(***************************************************************************)
C3_EmptyListAcceptsAnyVendorName ==
    (/\ last.outcome # "none"
     /\ devices = EmptyDict
     /\ HasVendorPrefix(last.name)
     /\ WellFormed(last.data)) =>
        /\ last.outcome = "updated"
        /\ CellsHold(last.name, last.name, last.data)

(***************************************************************************)
(* C3, amended.  With an empty allow-list every advertisement whose name   *)
(* begins with GVH, whose part before the first underscore is GVH5072 or   *)
(* GVH5075 and whose payload is well-formed updates the gauges keyed       *)
(* (name, name); a name with any other such part updates nothing.          *)
(***************************************************************************)
C3_EmptyListAcceptsDecodableNames ==
    (/\ last.outcome # "none"
     /\ devices = EmptyDict
     /\ HasVendorPrefix(last.name)
     /\ WellFormed(last.data)) =>
        IF HasDecoder(last.name)
        THEN /\ last.outcome = "updated"
             /\ CellsHold(last.name, last.name, last.data)
        ELSE /\ last.outcome = "no_parser"
             /\ last.name \notin DOMAIN accepted

C3_Witness ==
    /\ devices = EmptyDict
    /\ last.name = GVH5072
    /\ last.outcome = "updated"
    /\ << GVH5072, GVH5072 >> \in DOMAIN temp_c_gauge
    /\ << GVH5075_ABCD, GVH5075_ABCD >> \in DOMAIN humidity_gauge

(***************************************************************************)
(* C4.  An advertisement whose name does not begin with GVH is rejected    *)
(* whatever the allow-list and the payload are: the callback returns at    *)
(* the prefix test, changes no gauge cell and raises nothing.              *)
(***************************************************************************)
C4_ForeignNameRejected ==
    [][(CallbackStep /\ ~HasVendorPrefix(last'.name)) =>
           /\ last'.outcome = "not_govee"
           /\ UNCHANGED << gauges, accepted >>]_vars

C4_Witness ==
    /\ last.name = ABCD1234
    /\ last.name \in DOMAIN devices
    /\ last.data = Data_NoKey
    /\ last.outcome = "not_govee"
    /\ ~NoCells

(***************************************************************************)
(* C5.  An advertisement that passes the prefix test, the allow-list and   *)
(* the registry but lacks the vendor key or has fewer than 5 bytes makes   *)
(* the decoder fail: every gauge cell keeps its value and the scan loop    *)
(* stays where it was; the advertisement delivered next is processed as    *)
(* usual.                                                                  *)
(***************************************************************************)
C5_MalformedPayloadDropped ==
    [][/\ (/\ CallbackStep
           /\ HasVendorPrefix(last'.name)
           /\ PassesAllowList(last'.name)
           /\ HasDecoder(last'.name)
           /\ ~WellFormed(last'.data)) =>
              /\ last'.outcome \in {"KeyError", "IndexError"}
              /\ last'.reading = << >>
              /\ UNCHANGED << gauges, accepted, loop >>
       /\ (/\ CallbackStep
           /\ last.outcome \in Raised
           /\ last'.name = last.name
           /\ WellFormed(last'.data)) =>
              /\ last'.outcome = "updated"
              /\ CellsHoldIn(temp_c_gauge', temp_f_gauge', humidity_gauge',
                             battery_gauge', last.name, LabelOf(last.name),
                             last'.data)]_vars

C5_Witness ==
    /\ last.outcome = "IndexError"
    /\ last.data = Data_Short
    /\ last.name \in DOMAIN accepted
    /\ pc = "stop"

(***************************************************************************)
(* C6.  run_scan_loop alternates forever between scanning and idle: the    *)
(* calls of start and stop alternate, beginning with start; a stop comes   *)
(* one poll interval after its start, a start comes with no sleep after    *)
(* the stop before it; and both calls keep being made.                     *)
(***************************************************************************)
C6_ScanLoopAlternates ==
    /\ [](/\ calls \in {<< None, None >>, << None, "start" >>,
                        << "start", "stop" >>, << "stop", "start" >>}
          /\ scanning <=> calls[2] = "start"
          /\ calls[2] = "start" => slept.at_call = 0
          /\ calls[2] = "stop" => slept.at_call = poll_interval_secs
          /\ slept.now \in {0, poll_interval_secs})
    /\ []<>(calls[2] = "start")
    /\ []<>(calls[2] = "stop")

C6_Witness ==
    /\ calls = << "stop", "start" >>
    /\ slept = [now |-> poll_interval_secs, at_call |-> 0]
    /\ poll_interval_secs = 30
    /\ scanning

(***************************************************************************)
(* C7.  Every humidity the gauges hold is between 0 and 100 percent and    *)
(* every battery level is an integer between 0 and 100.                    *)
(***************************************************************************)
C7_PercentagesInRange ==
    /\ \A k \in DOMAIN humidity_gauge :
           humidity_gauge[k] >= 0 /\ humidity_gauge[k] <= 1000
    /\ \A k \in DOMAIN battery_gauge : battery_gauge[k] \in 0..100

(***************************************************************************)
(* C8.  The Fahrenheit cell of a device holds 32 + 9*temp_c/5 rounded to   *)
(* two decimals, temp_c being the value of its Celsius cell: 0.0 gives     *)
(* 32.00, 100.0 gives 212.00 and -40.0 gives -40.00.                       *)
(***************************************************************************)
C8_FahrenheitOfCelsius ==
    /\ DOMAIN temp_f_gauge = DOMAIN temp_c_gauge
    /\ \A k \in DOMAIN temp_f_gauge :
           /\ RoundedFahrenheit(temp_f_gauge[k], temp_c_gauge[k])
           /\ temp_c_gauge[k] = 0 => temp_f_gauge[k] = 3200
           /\ temp_c_gauge[k] = 1000000 => temp_f_gauge[k] = 21200
           /\ temp_c_gauge[k] = -400000 => temp_f_gauge[k] = -4000

C8_Witness ==
    /\ devices = EmptyDict
    /\ temp_c_gauge = [k \in {<< GVH5075_ABCD, GVH5075_ABCD >>,
                              << GVH5072, GVH5072 >>} |->
                          IF k[1] = GVH5072 THEN 1000000 ELSE -400000]
    /\ temp_f_gauge = [k \in {<< GVH5075_ABCD, GVH5075_ABCD >>,
                              << GVH5072, GVH5072 >>} |->
                          IF k[1] = GVH5072 THEN 21200 ELSE -4000]

(***************************************************************************)
(* C9.  Between callbacks, a device no advertisement of which reached the  *)
(* gauges has no cell; any other has exactly one cell (device, label) in   *)
(* each of the four gauges, holding the reading of its most recent such    *)
(* advertisement, whatever the cells held before.  No cell is ever         *)
(* removed, a callback leaves the cells of the other devices alone, and    *)
(* the same advertisement processed twice in a row changes nothing the     *)
(* second time.                                                            *)
(***************************************************************************)
C9_LatestReadingPerDevice ==
    /\ [](\A d \in DeviceNames :
             IF d \in DOMAIN accepted
             THEN /\ CellsOf(temp_c_gauge, d) = {<< d, LabelOf(d) >>}
                  /\ CellsOf(temp_f_gauge, d) = {<< d, LabelOf(d) >>}
                  /\ CellsOf(humidity_gauge, d) = {<< d, LabelOf(d) >>}
                  /\ CellsOf(battery_gauge, d) = {<< d, LabelOf(d) >>}
                  /\ CellsHold(d, LabelOf(d), accepted[d])
             ELSE /\ CellsOf(temp_c_gauge, d) = {}
                  /\ CellsOf(temp_f_gauge, d) = {}
                  /\ CellsOf(humidity_gauge, d) = {}
                  /\ CellsOf(battery_gauge, d) = {})
    /\ [][/\ DOMAIN temp_c_gauge \subseteq DOMAIN temp_c_gauge'
          /\ DOMAIN temp_f_gauge \subseteq DOMAIN temp_f_gauge'
          /\ DOMAIN humidity_gauge \subseteq DOMAIN humidity_gauge'
          /\ DOMAIN battery_gauge \subseteq DOMAIN battery_gauge'
          /\ \A k \in DOMAIN temp_c_gauge :
                 k[1] # last'.name =>
                     /\ temp_c_gauge'[k] = temp_c_gauge[k]
                     /\ temp_f_gauge'[k] = temp_f_gauge[k]
                     /\ humidity_gauge'[k] = humidity_gauge[k]
                     /\ battery_gauge'[k] = battery_gauge[k]
          /\ (CallbackStep /\ last'.name = last.name
                           /\ last'.data = last.data) =>
                 UNCHANGED << gauges, accepted >>]_vars

C9_Witness ==
    /\ devices = [k \in {GVH5075_ABCD} |-> ParseDeviceArg(Arg_Labelled)[2]]
    /\ accepted = [k \in {GVH5075_ABCD} |-> Data_Zero]
    /\ last.name = GVH5072
    /\ last.outcome = "not_on_list"
    /\ temp_c_gauge =
           [k \in {<< GVH5075_ABCD, devices[GVH5075_ABCD] >>} |-> 0]
    /\ battery_gauge =
           [k \in {<< GVH5075_ABCD, devices[GVH5075_ABCD] >>} |-> 100]

(***************************************************************************)
(* C10.  A name with the vendor prefix that passes the allow-list is       *)
(* decoded by the part before its first underscore, the whole name when    *)
(* it has none.  If that part is neither GVH5072 nor GVH5075 the callback  *)
(* returns without changing a cell or raising, well-formed payload or      *)
(* not; if it is one of the two and the payload is well-formed the cells   *)
(* are updated, and both decode the same payload to the same reading.      *)
(***************************************************************************)
C10_DecoderByModelPrefix ==
    /\ [][(/\ CallbackStep
           /\ HasVendorPrefix(last'.name)
           /\ PassesAllowList(last'.name)) =>
              IF HasDecoder(last'.name)
              THEN WellFormed(last'.data) =>
                       /\ last'.outcome = "updated"
                       /\ last'.reading = ExpectedReading(last'.data)
              ELSE /\ last'.outcome = "no_parser"
                   /\ UNCHANGED << gauges, accepted >>]_vars
    /\ [](\A d, e \in DOMAIN accepted :
             accepted[d] = accepted[e] =>
                 /\ temp_c_gauge[<< d, LabelOf(d) >>]
                        = temp_c_gauge[<< e, LabelOf(e) >>]
                 /\ temp_f_gauge[<< d, LabelOf(d) >>]
                        = temp_f_gauge[<< e, LabelOf(e) >>]
                 /\ humidity_gauge[<< d, LabelOf(d) >>]
                        = humidity_gauge[<< e, LabelOf(e) >>]
                 /\ battery_gauge[<< d, LabelOf(d) >>]
                        = battery_gauge[<< e, LabelOf(e) >>])

C10_Witness ==
    /\ GVH5100_ABCD \in DOMAIN devices
    /\ last.name = GVH5100_ABCD
    /\ last.data = Data_Short
    /\ last.outcome = "no_parser"
    /\ GVH5075_ABCD \in DOMAIN accepted

====
